---------------------------- MODULE Spec2Model ----------------------------
(***************************************************************************)
(* A model of the shortguid crate: the ShortGuid value (16 canonical       *)
(* bytes), its compact base64 codec, the parser, the equality overloads    *)
(* and the renderings.                                                     *)
(*                                                                         *)
(* A text is a sequence of Unicode code points; a Rust `str` exposes it as *)
(* its UTF-8 bytes, and `str::len` is the number of those bytes.           *)
(* A result is a record [ok, val, err]: Ok(val) or Err(err).               *)
(***************************************************************************)
EXTENDS Integers, Sequences, FiniteSets, TLC

VARIABLES
    id,      \* the identifier under test: its 16 canonical bytes
    text,    \* the text at hand (an input, or the output of a rendering)
    origin,  \* how `text` came about, relative to `id`
    op,      \* the last operation applied
    res,     \* its result
    edits    \* number of input edits made so far

vars == <<id, text, origin, op, res, edits>>

(***************************************************************************)
(* Program constants and bounds                                            *)
(***************************************************************************)
CompactLen == 22
UuidLen == 16

\* How many bytes of a sample identifier an input may overwrite.
MaxEdits == 1

\* The longest text an input builds character by character.
MaxFreeLen == 3

Byte == 0 .. 255

(***************************************************************************)
(* Sequence helpers                                                        *)
(***************************************************************************)
Slice(s, from, to) == [i \in 1 .. (to - from + 1) |-> s[from + i - 1]]

RECURSIVE Flatten(_)
Flatten(ss) == IF ss = <<>> THEN <<>> ELSE Head(ss) \o Flatten(Tail(ss))

(***************************************************************************)
(* str::as_bytes / str::len: UTF-8                                         *)
(***************************************************************************)
Utf8(c) ==
    IF c < 128 THEN <<c>>
    ELSE IF c < 2048 THEN <<192 + (c \div 64), 128 + (c % 64)>>
    ELSE IF c < 65536
         THEN <<224 + (c \div 4096), 128 + ((c \div 64) % 64), 128 + (c % 64)>>
    ELSE <<240 + (c \div 262144), 128 + ((c \div 4096) % 64),
           128 + ((c \div 64) % 64), 128 + (c % 64)>>

str_as_bytes(t) == Flatten([i \in 1 .. Len(t) |-> Utf8(t[i])])

str_len(t) == Len(str_as_bytes(t))

(***************************************************************************)
(* Results and errors                                                      *)
(***************************************************************************)
NoError == [tag |-> "None", n |-> 0, kind |-> "None", offset |-> 0, byte |-> 0]

InvalidLength(n) ==
    [tag |-> "InvalidLength", n |-> n, kind |-> "None", offset |-> 0, byte |-> 0]

InvalidFormat(e) ==
    [tag |-> "InvalidFormat", n |-> 0, kind |-> e.kind, offset |-> e.offset,
     byte |-> e.byte]

Ok(v) == [ok |-> TRUE, val |-> v, err |-> NoError]

Err(e) == [ok |-> FALSE, val |-> <<>>, err |-> e]

Nil == [i \in 1 .. UuidLen |-> 0]

\* The outcome of a failed expect: the thread unwinds, no value and no
\* ParseError is returned.
Panic == [tag |-> "Panic", n |-> 0, kind |-> "None", offset |-> 0, byte |-> 0]


(***************************************************************************)
(* base64::engine::general_purpose::URL_SAFE_NO_PAD                        *)
(* The alphabet A-Z a-z 0-9 - _ ; no padding on encode, padding refused    *)
(* and non-zero trailing bits refused on decode.                           *)
(***************************************************************************)
URL_SAFE ==
    [i \in 1 .. 64 |->
        IF i <= 26 THEN 64 + i
        ELSE IF i <= 52 THEN 70 + i
        ELSE IF i <= 62 THEN i - 5
        ELSE IF i = 63 THEN 45
        ELSE 95]

\* The 6-bit value of a symbol, or -1 for a byte outside the alphabet.
DECODE_TABLE ==
    [b \in Byte |->
        IF \E i \in 1 .. 64 : URL_SAFE[i] = b
        THEN (CHOOSE i \in 1 .. 64 : URL_SAFE[i] = b) - 1
        ELSE -1]

\* Symbol j (0-based) of the encoding of `bytes`: chunks of 3 bytes give 4
\* symbols, a last partial chunk is zero-extended.
EncodeSymbol(bytes, j) ==
    LET q  == j \div 4
        b0 == bytes[3 * q + 1]
        b1 == IF 3 * q + 2 <= Len(bytes) THEN bytes[3 * q + 2] ELSE 0
        b2 == IF 3 * q + 3 <= Len(bytes) THEN bytes[3 * q + 3] ELSE 0
        r  == j % 4
    IN  IF r = 0 THEN b0 \div 4
        ELSE IF r = 1 THEN (b0 % 4) * 16 + (b1 \div 16)
        ELSE IF r = 2 THEN (b1 % 16) * 4 + (b2 \div 64)
        ELSE b2 % 64

EncodedLen(n) ==
    4 * (n \div 3) + (IF n % 3 = 0 THEN 0 ELSE (n % 3) + 1)

\* Engine::encode_string: the symbols, as ASCII characters.
Base64Encode(bytes) ==
    [j \in 1 .. EncodedLen(Len(bytes)) |-> URL_SAFE[EncodeSymbol(bytes, j - 1) + 1]]

\* Byte k (0-based) decoded from the 6-bit values `vals`.
DecodeByte(vals, k) ==
    LET q == k \div 3
        r == k % 3
        v(i) == vals[4 * q + i]
    IN  IF r = 0 THEN v(1) * 4 + (v(2) \div 16)
        ELSE IF r = 1 THEN (v(2) % 16) * 16 + (v(3) \div 4)
        ELSE (v(3) % 4) * 64 + v(4)

DecodedLen(n) ==
    3 * (n \div 4) + (IF n % 4 = 0 THEN 0 ELSE (n % 4) - 1)

DecodeError(kind, offset, byte) == [kind |-> kind, offset |-> offset, byte |-> byte]

\* Engine::decode that ignores the unused low bits of the last symbol.
Base64Decode_lenient(input) ==
    LET n    == Len(input)
        vals == [i \in 1 .. n |-> DECODE_TABLE[input[i]]]
        bad  == {i \in 1 .. n : vals[i] < 0}
        rem  == n % 4
    IN  IF bad # {}
        THEN LET i == CHOOSE x \in bad : \A y \in bad : x <= y
             IN  [ok |-> FALSE, val |-> <<>>,
                  err |-> DecodeError("InvalidByte", i - 1, input[i])]
        ELSE IF rem = 1
        THEN [ok |-> FALSE, val |-> <<>>, err |-> DecodeError("InvalidLength", 0, 0)]
        ELSE [ok |-> TRUE,
              val |-> [k \in 1 .. DecodedLen(n) |-> DecodeByte(vals, k - 1)],
              err |-> DecodeError("None", 0, 0)]

\* Engine::decode on the bytes of the input.  A byte outside the alphabet
\* ('=' included, since no padding is accepted and a 22-byte input ends in a
\* group of two symbols) is InvalidByte at the first such offset; a lone
\* trailing symbol is InvalidLength; unused low bits of the last symbol that
\* are not zero are InvalidLastSymbol.
Base64Decode(input) ==
    LET n    == Len(input)
        vals == [i \in 1 .. n |-> DECODE_TABLE[input[i]]]
        bad  == {i \in 1 .. n : vals[i] < 0}
        rem  == n % 4
        mask == IF rem = 2 THEN 16 ELSE IF rem = 3 THEN 4 ELSE 1
    IN  IF bad # {}
        THEN LET i == CHOOSE x \in bad : \A y \in bad : x <= y
             IN  [ok |-> FALSE, val |-> <<>>,
                  err |-> DecodeError("InvalidByte", i - 1, input[i])]
        ELSE IF rem = 1
        THEN [ok |-> FALSE, val |-> <<>>, err |-> DecodeError("InvalidLength", 0, 0)]
        ELSE IF rem # 0 /\ vals[n] % mask # 0
        THEN [ok |-> FALSE, val |-> <<>>,
              err |-> DecodeError("InvalidLastSymbol", n - 1, input[n])]
        ELSE [ok |-> TRUE,
              val |-> [k \in 1 .. DecodedLen(n) |-> DecodeByte(vals, k - 1)],
              err |-> DecodeError("None", 0, 0)]

(***************************************************************************)
(* uuid::Uuid                                                              *)
(***************************************************************************)
UuidError == [tag |-> "UuidError", n |-> 0, kind |-> "None", offset |-> 0, byte |-> 0]

\* A hexadecimal digit of either case, or -1.
HexVal(b) ==
    IF b >= 48 /\ b <= 57 THEN b - 48
    ELSE IF b >= 97 /\ b <= 102 THEN b - 87
    ELSE IF b >= 65 /\ b <= 70 THEN b - 55
    ELSE -1

HexDigit(v) == IF v < 10 THEN 48 + v ELSE 87 + v

\* 32 hexadecimal digits.
parse_simple(s) ==
    IF Len(s) = 32 /\ \A i \in 1 .. 32 : HexVal(s[i]) >= 0
    THEN Ok([k \in 1 .. UuidLen |-> 16 * HexVal(s[2 * k - 1]) + HexVal(s[2 * k])])
    ELSE Err(UuidError)

\* Position (1-based) in the hyphenated form of hexadecimal digit k (1..32).
HyphenatedPos(k) ==
    IF k <= 8 THEN k
    ELSE IF k <= 12 THEN k + 1
    ELSE IF k <= 16 THEN k + 2
    ELSE IF k <= 20 THEN k + 3
    ELSE k + 4

\* 8-4-4-4-12 hexadecimal digits, hyphens at offsets 8, 13, 18 and 23.
parse_hyphenated(s) ==
    IF /\ Len(s) = 36
       /\ \A i \in {9, 14, 19, 24} : s[i] = 45
       /\ \A k \in 1 .. 32 : HexVal(s[HyphenatedPos(k)]) >= 0
    THEN Ok([k \in 1 .. UuidLen |->
                16 * HexVal(s[HyphenatedPos(2 * k - 1)])
                   + HexVal(s[HyphenatedPos(2 * k)])])
    ELSE Err(UuidError)

UrnPrefix == <<117, 114, 110, 58, 117, 117, 105, 100, 58>>

\* Uuid::try_parse: the shape is chosen by the number of bytes of the input:
\* 32 simple, 36 hyphenated, 38 hyphenated in braces, 45 hyphenated after
\* "urn:uuid:".
Uuid_try_parse(t) ==
    LET s == str_as_bytes(t)
        n == Len(s)
    IN  IF n = 32 THEN parse_simple(s)
        ELSE IF n = 36 THEN parse_hyphenated(s)
        ELSE IF n = 38 /\ s[1] = 123 /\ s[38] = 125
        THEN parse_hyphenated(Slice(s, 2, 37))
        ELSE IF n = 45 /\ Slice(s, 1, 9) = UrnPrefix
        THEN parse_hyphenated(Slice(s, 10, 45))
        ELSE Err(UuidError)

\* Display of a Uuid: lower-case hyphenated.
Uuid_fmt(bytes) ==
    [p \in 1 .. 36 |->
        IF p \in {9, 14, 19, 24} THEN 45
        ELSE LET k == CHOOSE x \in 1 .. 32 : HyphenatedPos(x) = p
                 b == bytes[(k + 1) \div 2]
             IN  HexDigit(IF k % 2 = 1 THEN b \div 16 ELSE b % 16)]

Uuid_from_bytes(bytes) == bytes

Uuid_is_nil(bytes) == \A i \in 1 .. UuidLen : bytes[i] = 0

Uuid_to_bytes_le(b) ==
    <<b[4], b[3], b[2], b[1], b[6], b[5], b[8], b[7],
      b[9], b[10], b[11], b[12], b[13], b[14], b[15], b[16]>>

(***************************************************************************)
(* ShortGuid                                                               *)
(***************************************************************************)
from_bytes(bytes) == Uuid_from_bytes(bytes)

as_bytes(self) == self

is_empty(self) == Uuid_is_nil(self)

\* to_bytes_le as a flip of all 16 bytes.
to_bytes_le_reversed(self) == [i \in 1 .. UuidLen |-> self[UuidLen + 1 - i]]

to_bytes_le(self) == Uuid_to_bytes_le(self)

\* value.try_into().expect("array has 16 elements")
expect_array(value) ==
    IF Len(value) = UuidLen THEN Ok(value) ELSE Err(Panic)

\* try_decode without either check of a length.
try_decode_unguarded(value) ==
    IF Len(value) = 0
    THEN Ok(Nil)
    ELSE LET d == Base64Decode(str_as_bytes(value))
         IN  IF ~d.ok THEN Err(InvalidFormat(d.err))
             ELSE LET a == expect_array(d.val)
                  IN  IF a.ok THEN Ok(Uuid_from_bytes(a.val)) ELSE a

\* try_decode without the check of the input's length.
try_decode_unchecked_length(value) ==
    IF Len(value) = 0
    THEN Ok(Nil)
    ELSE LET d == Base64Decode(str_as_bytes(value))
         IN  IF ~d.ok THEN Err(InvalidFormat(d.err))
             ELSE IF Len(d.val) # UuidLen THEN Err(InvalidLength(Len(d.val)))
             ELSE LET a == expect_array(d.val)
                  IN  IF a.ok THEN Ok(Uuid_from_bytes(a.val)) ELSE a

\* try_decode without the leniency for the empty text.
try_decode_strict(value) ==
    IF str_len(value) # CompactLen
    THEN Err(InvalidLength(str_len(value)))
    ELSE LET d == Base64Decode(str_as_bytes(value))
         IN  IF ~d.ok THEN Err(InvalidFormat(d.err))
             ELSE IF Len(d.val) # UuidLen THEN Err(InvalidLength(Len(d.val)))
             ELSE LET a == expect_array(d.val)
                  IN  IF a.ok THEN Ok(Uuid_from_bytes(a.val)) ELSE a

try_decode(value) ==
    IF Len(value) = 0
    THEN Ok(Nil)
    ELSE IF str_len(value) # CompactLen
    THEN Err(InvalidLength(str_len(value)))
    ELSE LET d == Base64Decode(str_as_bytes(value))
         IN  IF ~d.ok THEN Err(InvalidFormat(d.err))
             ELSE IF Len(d.val) # UuidLen THEN Err(InvalidLength(Len(d.val)))
             ELSE LET a == expect_array(d.val)
                  IN  IF a.ok THEN Ok(Uuid_from_bytes(a.val)) ELSE a

\* try_parse without the canonical-UUID attempt.
try_parse_compact_only(value) == try_decode(value)

try_parse(value) ==
    LET u == Uuid_try_parse(value)
    IN  IF u.ok THEN Ok(u.val) ELSE try_decode(value)

\* encode through an engine that pads its output with '='.
encode_padded(value) == Base64Encode(as_bytes(value)) \o <<61, 61>>

encode(value) == Base64Encode(as_bytes(value))

fmt_Display(self) == encode(self)

\* Debug with the two renderings swapped.
fmt_Debug_swapped(self) == Uuid_fmt(self) \o <<32, 40>> \o encode(self) \o <<41>>

fmt_Debug(self) == encode(self) \o <<32, 40>> \o Uuid_fmt(self) \o <<41>>

eq_Uuid(self, other) == self = other

eq_ShortGuid(self, other) == as_bytes(self) = as_bytes(other)

\* eq against a text that tries the canonical UUID parse only.
eq_str_canonical_only(self, other) ==
    LET u == Uuid_try_parse(other)
    IN  IF u.ok THEN self = u.val ELSE FALSE

\* eq against a text that takes a text neither decoding accepts as equal.
eq_str_malformed_equal(self, other) ==
    LET d == try_decode(other)
        u == Uuid_try_parse(other)
    IN  IF d.ok THEN self = d.val
        ELSE IF u.ok THEN self = u.val
        ELSE TRUE

\* eq against a text that tries the compact decoding only.
eq_str_compact_only(self, other) ==
    LET d == try_decode(other)
    IN  IF d.ok THEN self = d.val ELSE FALSE

eq_str(self, other) ==
    LET d == try_decode(other)
        u == Uuid_try_parse(other)
    IN  IF d.ok THEN self = d.val
        ELSE IF u.ok THEN self = u.val
        ELSE FALSE

\* eq against a buffer that compares the bytes the buffer has.
eq_slice_prefix(self, other) ==
    /\ Len(other) <= UuidLen
    /\ \A i \in 1 .. Len(other) : as_bytes(self)[i] = other[i]

eq_slice(self, other) == Len(other) = UuidLen /\ as_bytes(self) = other

eq_array(self, other) == as_bytes(self) = other

\* Uuid::from_slice: exactly 16 bytes, else the uuid crate's byte-length error.
Uuid_from_slice(b) ==
    IF Len(b) = UuidLen
    THEN Ok(Uuid_from_bytes(b))
    ELSE Err([tag |-> "ByteLength", n |-> Len(b), kind |-> "None", offset |-> 0,
              byte |-> 0])

\* Display of the uuid crate's error.
UuidError_fmt(e) ==
    IF e.tag = "ByteLength"
    THEN "invalid length: expected 16 bytes, found " \o ToString(e.n)
    ELSE "invalid UUID"

InvalidSlice(e) ==
    [tag |-> "InvalidSlice", n |-> e.n, kind |-> e.tag, offset |-> 0, byte |-> 0]

from_slice(bytes) ==
    LET u == Uuid_from_slice(bytes)
    IN  IF u.ok THEN Ok(u.val) ELSE Err(InvalidSlice(u.err))

\* Display of base64::DecodeError.
DecodeError_fmt(e) ==
    IF e.kind = "InvalidByte"
    THEN "Invalid byte " \o ToString(e.byte) \o ", offset " \o ToString(e.offset) \o "."
    ELSE IF e.kind = "InvalidLastSymbol"
    THEN "Invalid last symbol " \o ToString(e.byte) \o ", offset "
            \o ToString(e.offset) \o "."
    ELSE "Encoded text cannot have a 6-bit remainder."

\* impl Display for ParseError
ParseError_fmt(e) ==
    IF e.tag = "InvalidLength"
    THEN "Invalid ID length; expected 22 characters, but got " \o ToString(e.n)
    ELSE IF e.tag = "InvalidFormat"
    THEN "Invalid ID format: " \o DecodeError_fmt(e)
    ELSE "Invalid slice: " \o UuidError_fmt([tag |-> e.kind, n |-> e.n])

from_str(s) == try_parse(s)

(***************************************************************************)
(* The serde adapter.  A deserialization returns the identifier or the     *)
(* message of the deserializer's error.                                    *)
(***************************************************************************)
SerdeOk(v) == [ok |-> TRUE, val |-> v, msg |-> ""]

SerdeErr(m) == [ok |-> FALSE, val |-> <<>>, msg |-> m]

\* Serialize, human-readable: serialize_str of the compact text.
serialize_str(self) == encode(self)

\* Serialize, binary, of the little-endian bytes.
serialize_bytes_le(self) == to_bytes_le(self)

\* Serialize, binary: serialize_bytes of the canonical bytes.
serialize_bytes(self) == as_bytes(self)

\* de_error without its prefix.
de_error_unprefixed(e) == ParseError_fmt(e)

de_error(e) == "ShortGuid parsing failed: " \o ParseError_fmt(e)

visit_str(value) ==
    LET r == from_str(value)
    IN  IF r.ok THEN SerdeOk(r.val) ELSE SerdeErr(de_error(r.err))

visit_bytes(value) ==
    LET r == from_slice(value)
    IN  IF r.ok THEN SerdeOk(r.val) ELSE SerdeErr(de_error(r.err))

\* "a ShortGuid string"
expecting == "a ShortGuid string"

\* serde::de::Error::invalid_length(len, &exp)
invalid_length(len, exp) == "invalid length " \o ToString(len) \o ", expected " \o exp

\* visit_seq takes 16 elements one by one; a sequence that ends before the
\* sixteenth is an invalid_length(16, ..) error.
visit_seq(seq) ==
    IF Len(seq) < UuidLen
    THEN SerdeErr(invalid_length(UuidLen, expecting))
    ELSE SerdeOk(from_bytes(SubSeq(seq, 1, UuidLen)))

\* Uuid::deserialize on a binary format: the bytes through Uuid::from_slice,
\* an error with the uuid crate's own prefix.
Uuid_deserialize(bytes) ==
    LET u == Uuid_from_slice(bytes)
    IN  IF u.ok THEN SerdeOk(u.val)
        ELSE SerdeErr("UUID parsing failed: " \o UuidError_fmt(u.err))

deserialize_binary(bytes) ==
    LET u == Uuid_deserialize(bytes)
    IN  IF u.ok THEN SerdeOk(u.val) ELSE u

(***************************************************************************)
(* Inputs.  The identifiers are those of the crate's tests, with up to     *)
(* MaxEdits bytes overwritten; the texts are the renderings of the         *)
(* identifier, each as it is or with one character replaced, appended or   *)
(* dropped, and short texts built from CharSamples.                        *)
(***************************************************************************)
SampleIds ==
    { Nil,
      <<201, 166, 70, 211, 156, 97, 76, 183, 191, 205, 238, 37, 34, 200, 246, 51>>,
      <<16, 184, 167, 107, 173, 157, 209, 17, 128, 180, 0, 192, 79, 212, 48, 200>>,
      <<225, 147, 160, 90, 202, 156, 51, 88, 132, 221, 137, 152, 90, 41, 236, 4>>,
      <<161, 162, 163, 164, 177, 178, 193, 194, 209, 210, 211, 212, 213, 214, 215, 216>> }

ByteSamples == {255}

\* 'A', 'B', 'g', '-', '=', U+00E9
CharSamples == {65, 66, 103, 45, 61, 233}

Forms == {"hyphenated", "HYPHENATED", "simple", "braced", "urn"}

ToUpper(t) == [i \in 1 .. Len(t) |-> IF t[i] >= 97 /\ t[i] <= 122 THEN t[i] - 32 ELSE t[i]]

\* The texts of a UUID that callers hand to the parser.
UuidText(bytes, form) ==
    LET h == Uuid_fmt(bytes)
    IN  IF form = "hyphenated" THEN h
        ELSE IF form = "HYPHENATED" THEN ToUpper(h)
        ELSE IF form = "simple"
        THEN [k \in 1 .. 32 |-> h[HyphenatedPos(k)]]
        ELSE IF form = "braced" THEN <<123>> \o h \o <<125>>
        ELSE UrnPrefix \o h

\* Byte buffers compared against an identifier.
BufInputs(self) ==
    { as_bytes(self), to_bytes_le(self), <<>>, Nil,
      SubSeq(as_bytes(self), 1, UuidLen - 1),
      SubSeq(as_bytes(self), 2, UuidLen),
      Append(as_bytes(self), 0),
      Append(as_bytes(self), self[UuidLen]) }
    \cup { [self EXCEPT ![k] = (self[k] + 1) % 256] : k \in 1 .. UuidLen }

\* Second identifiers and buffers for the comparisons of two identifiers
\* against one right-hand value.
CompareIds(self, t) ==
    {self, Nil, to_bytes_le(self)}
    \cup (IF try_parse(t).ok THEN {try_parse(t).val} ELSE {})

CompareBufs(self) ==
    { as_bytes(self), to_bytes_le(self), <<>>,
      SubSeq(as_bytes(self), 1, UuidLen - 1),
      Append(as_bytes(self), 0) }

NoResult == Ok(<<>>)

\* A run prepares its inputs and then applies one operation to them.
Preparing ==
    op \in {"init", "from_bytes", "to_string", "text", "serialize", "serialize_bytes"}

Init ==
    /\ id \in SampleIds
    /\ text = <<>>
    /\ origin = "none"
    /\ op = "init"
    /\ res = NoResult
    /\ edits = 0

(***************************************************************************)
(* Input steps                                                             *)
(***************************************************************************)
\* ShortGuid::from_bytes on a buffer that differs from the identifier at hand
\* in one byte.
FromBytes ==
    /\ op \in {"init", "from_bytes"}
    /\ edits < MaxEdits
    /\ \E i \in 1 .. UuidLen, b \in ByteSamples :
          /\ id[i] # b
          /\ id' = from_bytes([id EXCEPT ![i] = b])
    /\ text' = <<>>
    /\ origin' = "none"
    /\ op' = "from_bytes"
    /\ res' = Ok(as_bytes(id'))
    /\ edits' = edits + 1

\* id.to_string(): Display writes the compact text.
Display ==
    /\ Preparing
    /\ origin = "none"
    /\ text' = fmt_Display(id)
    /\ origin' = "display"
    /\ op' = "to_string"
    /\ res' = NoResult
    /\ UNCHANGED <<id, edits>>

\* A caller's text of the identifier as a UUID.
ChooseText ==
    /\ Preparing
    /\ origin = "none"
    /\ \E f \in Forms :
          /\ text' = UuidText(id, f)
          /\ origin' = f
    /\ op' = "text"
    /\ res' = NoResult
    /\ UNCHANGED <<id, edits>>

Derived == {"display"} \cup Forms

\* One character of a rendering replaced, appended or dropped.
EditText ==
    /\ Preparing
    /\ edits = 0
    /\ origin \in Derived
    /\ \/ \E i \in 1 .. Len(text), c \in CharSamples :
             /\ text[i] # c
             /\ text' = [text EXCEPT ![i] = c]
       \/ \E c \in CharSamples : text' = Append(text, c)
       \/ text' = SubSeq(text, 1, Len(text) - 1)
    /\ origin' = "edited"
    /\ op' = "text"
    /\ res' = NoResult
    /\ UNCHANGED <<id, edits>>

\* A text built character by character.
PushChar ==
    /\ Preparing
    /\ edits = 0
    /\ origin \in {"none", "free"}
    /\ Len(text) < MaxFreeLen
    /\ \E c \in CharSamples : text' = Append(text, c)
    /\ origin' = "free"
    /\ op' = "text"
    /\ res' = NoResult
    /\ UNCHANGED <<id, edits>>

(***************************************************************************)
(* Operations                                                              *)
(***************************************************************************)
TryParse ==
    /\ Preparing
    /\ op' = "try_parse"
    /\ res' = try_parse(text)
    /\ UNCHANGED <<id, text, origin, edits>>

TryDecode ==
    /\ Preparing
    /\ op' = "try_decode"
    /\ res' = try_decode(text)
    /\ UNCHANGED <<id, text, origin, edits>>

\* id == text, for String, str and &str alike.
EqStr ==
    /\ Preparing
    /\ op' = "eq_str"
    /\ res' = [eq |-> eq_str(id, text), rhs |-> text]
    /\ UNCHANGED <<id, text, origin, edits>>

\* id == buffer, for Vec<u8> and &[u8].
EqSlice ==
    /\ Preparing
    /\ origin = "none"
    /\ \E buf \in BufInputs(id) :
          res' = [eq |-> eq_slice(id, buf), rhs |-> buf]
    /\ op' = "eq_slice"
    /\ UNCHANGED <<id, text, origin, edits>>

\* id == array, for [u8; 16] and &[u8; 16].
EqArray ==
    /\ Preparing
    /\ origin = "none"
    /\ \E buf \in {b \in BufInputs(id) : Len(b) = UuidLen} :
          res' = [eq |-> eq_array(id, buf), rhs |-> buf]
    /\ op' = "eq_array"
    /\ UNCHANGED <<id, text, origin, edits>>

ToBytesLe ==
    /\ Preparing
    /\ origin = "none"
    /\ op' = "to_bytes_le"
    /\ res' = Ok(to_bytes_le(id))
    /\ UNCHANGED <<id, text, origin, edits>>

\* format!("{:?}", id), next to the text Display wrote.
Debug ==
    /\ Preparing
    /\ origin = "display"
    /\ op' = "debug"
    /\ res' = Ok(fmt_Debug(id))
    /\ UNCHANGED <<id, text, origin, edits>>

\* a == x, b == x and a == b for a second identifier b and a right-hand
\* value x that is a text, a Uuid or a byte buffer.
Compare ==
    /\ Preparing
    /\ \E b \in CompareIds(id, text) :
          \/ res' = [kind |-> "text", b |-> b, x |-> text,
                     aa |-> eq_ShortGuid(id, id), ab |-> eq_ShortGuid(id, b),
                     ax |-> eq_str(id, text), bx |-> eq_str(b, text)]
          \/ /\ origin = "none"
             /\ \E x \in {id, b} :
                   res' = [kind |-> "uuid", b |-> b, x |-> x,
                           aa |-> eq_ShortGuid(id, id), ab |-> eq_ShortGuid(id, b),
                           ax |-> eq_Uuid(id, x), bx |-> eq_Uuid(b, x)]
          \/ /\ origin = "none"
             /\ \E x \in CompareBufs(id) \cup {as_bytes(b)} :
                   res' = [kind |-> "bytes", b |-> b, x |-> x,
                           aa |-> eq_ShortGuid(id, id), ab |-> eq_ShortGuid(id, b),
                           ax |-> eq_slice(id, x), bx |-> eq_slice(b, x)]
    /\ op' = "compare"
    /\ UNCHANGED <<id, text, origin, edits>>

\* Serialize with a human-readable serializer: the text it is given.
Serialize ==
    /\ Preparing
    /\ origin = "none"
    /\ text' = serialize_str(id)
    /\ origin' = "serialized"
    /\ op' = "serialize"
    /\ res' = NoResult
    /\ UNCHANGED <<id, edits>>

\* Serialize with a binary serializer: the bytes it is given.
SerializeBinary ==
    /\ Preparing
    /\ op # "serialize_bytes"
    /\ origin = "none"
    /\ op' = "serialize_bytes"
    /\ res' = Ok(serialize_bytes(id))
    /\ UNCHANGED <<id, text, origin, edits>>

\* Deserialize, human-readable, from a string.
DeserializeStr ==
    /\ Preparing
    /\ LET r == visit_str(text)
       IN  res' = [ok |-> r.ok, val |-> r.val, msg |-> r.msg, input |-> text,
                   src |-> origin]
    /\ op' = "de_str"
    /\ UNCHANGED <<id, text, origin, edits>>

\* Deserialize, human-readable, from a byte sequence.
DeserializeBytes ==
    /\ Preparing
    /\ origin = "none"
    /\ \E buf \in CompareBufs(id) :
          LET r == visit_bytes(buf)
          IN  res' = [ok |-> r.ok, val |-> r.val, msg |-> r.msg, input |-> buf,
                      src |-> "input"]
    /\ op' = "de_bytes"
    /\ UNCHANGED <<id, text, origin, edits>>

\* Deserialize, human-readable, from a sequence of byte elements.
DeserializeSeq ==
    /\ Preparing
    /\ origin = "none"
    /\ \E buf \in CompareBufs(id) :
          LET r == visit_seq(buf)
          IN  res' = [ok |-> r.ok, val |-> r.val, msg |-> r.msg, input |-> buf,
                      src |-> "input"]
    /\ op' = "de_seq"
    /\ UNCHANGED <<id, text, origin, edits>>

\* Deserialize, binary: from the bytes just serialized, or from other bytes.
DeserializeBinary ==
    /\ Preparing
    /\ origin = "none"
    /\ \E buf \in (IF op = "serialize_bytes" THEN {res.val} ELSE CompareBufs(id)) :
          LET r == deserialize_binary(buf)
          IN  res' = [ok |-> r.ok, val |-> r.val, msg |-> r.msg, input |-> buf,
                      src |-> IF op = "serialize_bytes" THEN "serialized" ELSE "input"]
    /\ op' = "de_binary"
    /\ UNCHANGED <<id, text, origin, edits>>

Next ==
    \/ FromBytes
    \/ Display
    \/ ChooseText
    \/ EditText
    \/ PushChar
    \/ TryParse
    \/ TryDecode
    \/ EqStr
    \/ EqSlice
    \/ EqArray
    \/ ToBytesLe
    \/ Debug
    \/ Compare
    \/ Serialize
    \/ SerializeBinary
    \/ DeserializeStr
    \/ DeserializeBytes
    \/ DeserializeSeq
    \/ DeserializeBinary

Spec == Init /\ [][Next]_vars

(***************************************************************************)
(* Properties                                                              *)
(***************************************************************************)

\* The textual shapes, stated on the characters of a text.
HexChars == (48 .. 57) \cup (65 .. 70) \cup (97 .. 102)

Base64Chars == (65 .. 90) \cup (97 .. 122) \cup (48 .. 57) \cup {45, 95}

\* 8-4-4-4-12 hexadecimal digits of either case, separated by hyphens.
IsHyphenated(t) ==
    /\ Len(t) = 36
    /\ \A i \in 1 .. 36 :
          IF i \in {9, 14, 19, 24} THEN t[i] = 45 ELSE t[i] \in HexChars

IsSimple(t) == Len(t) = 32 /\ \A i \in 1 .. 32 : t[i] \in HexChars

IsBraced(t) ==
    Len(t) = 38 /\ t[1] = 123 /\ t[38] = 125 /\ IsHyphenated(SubSeq(t, 2, 37))

IsUrn(t) ==
    /\ Len(t) = 45
    /\ SubSeq(t, 1, 9) = <<117, 114, 110, 58, 117, 117, 105, 100, 58>>
    /\ IsHyphenated(SubSeq(t, 10, 45))

IsUuidText(t) == IsHyphenated(t) \/ IsSimple(t) \/ IsBraced(t) \/ IsUrn(t)

\* 22 characters of the URL-safe alphabet, the last one 'A', 'Q', 'g' or 'w'
\* (its four unused low bits zero).
IsCompactText(t) ==
    /\ Len(t) = 22
    /\ \A i \in 1 .. 22 : t[i] \in Base64Chars
    /\ t[22] \in {65, 81, 103, 119}

\* C1: the compact text Display writes for an identifier is accepted by
\* try_decode and by try_parse, and both return exactly that identifier.
C1_CompactRoundTrip ==
    (origin = "display" /\ op \in {"try_parse", "try_decode"}) => res = Ok(id)

C1_Witness ==
    /\ origin = "display"
    /\ op = "try_parse"
    /\ res = Ok(id)
    /\ id \notin SampleIds

\* C2: try_parse of the canonical hyphenated text of an identifier, in lower
\* or upper case, and of its compact text all return that identifier, and
\* the identifier compares equal to each of those texts.
C2_DualAcceptance ==
    origin \in {"hyphenated", "HYPHENATED", "display"} =>
        /\ op = "try_parse" => res = Ok(id)
        /\ op = "eq_str" => res.eq

C2_Witness ==
    /\ origin = "HYPHENATED"
    /\ op = "try_parse"
    /\ res = Ok(id)
    /\ \E i \in 1 .. Len(text) : text[i] \in 65 .. 70

\* C3, as claimed: a non-empty text is parsed only if it is a 36-character
\* hyphenated UUID or a 22-character compact encoding, and a text whose
\* length is neither 36 nor 22 is rejected with InvalidLength of its length.
C3_OnlyTwoShapes ==
    (op = "try_parse" /\ text # <<>>) =>
        /\ res.ok => (IsHyphenated(text) \/ IsCompactText(text))
        /\ str_len(text) \notin {22, 36} => res = Err(InvalidLength(str_len(text)))

\* C3, amended: a non-empty text is parsed only if it is a UUID text in one of
\* the forms Uuid::try_parse accepts (hyphenated, simple, braced, urn) or a
\* 22-character compact encoding; a text that is none of those UUID forms and
\* is not 22 bytes long is rejected with InvalidLength of its length in bytes.
C3_AcceptedShapes ==
    (op = "try_parse" /\ text # <<>>) =>
        /\ res.ok => (IsUuidText(text) \/ IsCompactText(text))
        /\ (~IsUuidText(text) /\ str_len(text) # 22) =>
              res = Err(InvalidLength(str_len(text)))

C3_Witness ==
    /\ op = "try_parse"
    /\ origin = "urn"
    /\ res = Ok(id)

\* C4: try_decode of a non-empty text fails with InvalidLength(n), n the
\* number of characters of the text, exactly when the text is not 22
\* characters long; a text of 22 characters is decoded to 16 bytes or fails
\* with InvalidFormat.
C4_LengthInCharacters ==
    (op = "try_decode" /\ text # <<>>) =>
        IF Len(text) # 22
        THEN res = Err(InvalidLength(Len(text)))
        ELSE \/ res.ok /\ Len(res.val) = 16
             \/ ~res.ok /\ res.err.tag = "InvalidFormat"

\* C5: try_decode and try_parse of the empty text return the nil identifier,
\* and an identifier compares equal to the empty text iff it is nil.
C5_EmptyIsNil ==
    text = <<>> =>
        /\ op \in {"try_decode", "try_parse"} => res = Ok([i \in 1 .. 16 |-> 0])
        /\ op = "eq_str" => (res.eq <=> \A i \in 1 .. 16 : id[i] = 0)

C5_Witness ==
    /\ text = <<>>
    /\ op = "eq_str"
    /\ ~res.eq
    /\ \E i \in 1 .. 16 : id[i] # 0

\* The identifier a text denotes, stated on bits and digits.
SymbolValue(c) ==
    IF c \in 65 .. 90 THEN c - 65
    ELSE IF c \in 97 .. 122 THEN c - 71
    ELSE IF c \in 48 .. 57 THEN c + 4
    ELSE IF c = 45 THEN 62
    ELSE 63

\* Bit j (0 is the most significant bit of the first byte) of 16 bytes, and
\* of a text of 6-bit symbols.
BitOfBytes(v, j) == (v[(j \div 8) + 1] \div (2 ^ (7 - (j % 8)))) % 2

BitOfSymbols(t, j) == (SymbolValue(t[(j \div 6) + 1]) \div (2 ^ (5 - (j % 6)))) % 2

\* The hexadecimal digits of a UUID text, wrapper and hyphens removed.
DigitsOf(t) ==
    LET core == IF IsUrn(t) THEN SubSeq(t, 10, 45) ELSE t
        IsHex(c) == c \in HexChars
    IN  SelectSeq(core, IsHex)

DigitValue(c) == IF c <= 57 THEN c - 48 ELSE (c % 32) + 9

NibbleOf(v, k) == IF k % 2 = 1 THEN v[(k + 1) \div 2] \div 16 ELSE v[k \div 2] % 16

Denotes(t, v) ==
    \/ t = <<>> /\ \A i \in 1 .. 16 : v[i] = 0
    \/ IsCompactText(t) /\ \A j \in 0 .. 127 : BitOfSymbols(t, j) = BitOfBytes(v, j)
    \/ IsUuidText(t) /\ \A k \in 1 .. 32 : DigitValue(DigitsOf(t)[k]) = NibbleOf(v, k)

\* C6: equality of an identifier against a text is a boolean for every text:
\* true exactly when the text, as a compact encoding or else as a UUID text,
\* denotes the identifier, and false when neither decoding accepts the text.
C6_TextEquality ==
    op = "eq_str" =>
        /\ res.eq \in BOOLEAN
        /\ res.eq <=> Denotes(text, id)
        /\ (~try_decode(text).ok /\ ~Uuid_try_parse(text).ok) => ~res.eq

C6_Witness ==
    /\ op = "eq_str"
    /\ origin = "edited"
    /\ ~try_decode(text).ok
    /\ ~Uuid_try_parse(text).ok
    /\ res.eq = FALSE

\* C7: equality of an identifier against a byte buffer is true iff the buffer
\* has exactly 16 bytes, each equal to the identifier's byte at its position;
\* for every other length it is false.
C7_BufferEquality ==
    op \in {"eq_slice", "eq_array"} =>
        res.eq = (Len(res.rhs) = 16 /\ \A i \in 1 .. 16 : res.rhs[i] = id[i])

C7_Witness ==
    /\ op = "eq_slice"
    /\ Len(res.rhs) = 17
    /\ \A i \in 1 .. 16 : res.rhs[i] = id[i]
    /\ ~res.eq

\* C8: to_bytes_le returns the canonical bytes with the first four reversed,
\* the next two reversed, the next two reversed and the last eight in place,
\* and leaves the identifier's own bytes unchanged.
C8_ToBytesLe ==
    [][op' = "to_bytes_le" =>
          /\ id' = id
          /\ res'.ok
          /\ Len(res'.val) = 16
          /\ \A i \in 1 .. 16 :
                res'.val[i] = id[IF i <= 4 THEN 5 - i
                                 ELSE IF i <= 6 THEN 11 - i
                                 ELSE IF i <= 8 THEN 15 - i
                                 ELSE i]]_vars

C8_Witness ==
    /\ op = "to_bytes_le"
    /\ res.val # id
    /\ res.val[1] = id[4]
    /\ res.val[16] = id[16]
    /\ id \notin SampleIds

\* C9: the equalities are coherent: v == v, and for a right-hand value x that
\* is a Uuid, a text or a byte buffer, a == x and b == x imply a == b, and
\* a == b and a == x imply b == x.
C9_EqualityCoherent ==
    op = "compare" =>
        /\ res.aa
        /\ (res.ax /\ res.bx) => res.ab
        /\ (res.ab /\ res.ax) => res.bx

C9_Witness ==
    /\ op = "compare"
    /\ res.kind = "text"
    /\ origin = "HYPHENATED"
    /\ res.ax /\ res.bx /\ res.ab
    /\ res.b = id

\* C10: Display writes exactly the 22-character compact encoding of the
\* identifier; Debug writes that same text, a space, and in parentheses the
\* lower-case hyphenated form of the same 16 bytes.
C10_Renderings ==
    /\ op = "to_string" => (IsCompactText(text) /\ Denotes(text, id))
    /\ op = "debug" =>
          /\ Len(res.val) = 61
          /\ SubSeq(res.val, 1, 22) = text
          /\ res.val[23] = 32 /\ res.val[24] = 40 /\ res.val[61] = 41
          /\ LET long == SubSeq(res.val, 25, 60)
             IN  /\ IsHyphenated(long)
                 /\ \A i \in 1 .. 36 : long[i] \notin 65 .. 70
                 /\ Denotes(long, id)

C10_Witness ==
    /\ op = "debug"
    /\ id \notin SampleIds
    /\ text = SubSeq(res.val, 1, 22)
    /\ \E i \in 25 .. 60 : res.val[i] \in 97 .. 102

\* C11, as claimed: every failed deserialization, in either mode and from
\* either input shape, has the message "ShortGuid parsing failed: " followed
\* by the message of a parse error.
C11_UniformPrefix ==
    (op \in {"de_str", "de_bytes", "de_seq", "de_binary"} /\ ~res.ok) =>
        \E e \in {try_parse(text).err, from_slice(res.input).err} :
            /\ e.tag \in {"InvalidLength", "InvalidFormat", "InvalidSlice"}
            /\ res.msg = "ShortGuid parsing failed: " \o ParseError_fmt(e)

\* C11, amended: a failed human-readable deserialization from a string or a
\* byte sequence has the message "ShortGuid parsing failed: " followed by the
\* parse error's message; from a sequence of fewer than 16 elements it has
\* serde's invalid-length message; a failed binary deserialization has the
\* uuid crate's message, prefixed "UUID parsing failed: ".
C11_ErrorMessages ==
    /\ (op = "de_str" /\ ~res.ok) =>
          /\ ~try_parse(text).ok
          /\ res.msg = "ShortGuid parsing failed: "
                          \o ParseError_fmt(try_parse(text).err)
    /\ (op = "de_bytes" /\ ~res.ok) =>
          res.msg = "ShortGuid parsing failed: Invalid slice: "
                       \o "invalid length: expected 16 bytes, found "
                       \o ToString(Len(res.input))
    /\ (op = "de_seq" /\ ~res.ok) =>
          res.msg = "invalid length 16, expected a ShortGuid string"
    /\ (op = "de_binary" /\ ~res.ok) =>
          res.msg = "UUID parsing failed: invalid length: expected 16 bytes, found "
                       \o ToString(Len(res.input))

C11_Witness ==
    /\ op = "de_str"
    /\ ~res.ok
    /\ res.msg = "ShortGuid parsing failed: Invalid ID length; expected 22 characters, but got 3"

\* C12: human-readable serialization emits the 22-character compact text of
\* the identifier and binary serialization its 16 canonical bytes;
\* deserializing either output in its mode returns the identifier, and so
\* does human-readable deserialization of its canonical hyphenated text, of
\* its 16 bytes as a byte sequence and as a sequence of 16 elements.
C12_SerdeRoundTrip ==
    /\ op = "serialize" => (IsCompactText(text) /\ Denotes(text, id))
    /\ op = "serialize_bytes" =>
          (Len(res.val) = 16 /\ \A i \in 1 .. 16 : res.val[i] = id[i])
    /\ (op = "de_str" /\ origin \in {"serialized", "hyphenated"}) =>
          (res.ok /\ res.val = id)
    /\ (op = "de_binary" /\ res.src = "serialized") => (res.ok /\ res.val = id)
    /\ (op \in {"de_bytes", "de_seq"} /\ res.input = id) => (res.ok /\ res.val = id)

C12_Witness ==
    /\ op = "de_binary"
    /\ res.src = "serialized"
    /\ res.ok
    /\ res.val = id
    /\ id \notin SampleIds

\* C13: try_parse and try_decode never panic: each returns either an
\* identifier of 16 bytes or a ParseError (InvalidLength or InvalidFormat),
\* and whenever try_decode's base64 decoding of a 22-byte text succeeds, the
\* decoded bytes that reach the conversion to an array are exactly 16.
C13_NoPanic ==
    /\ op \in {"try_parse", "try_decode"} =>
          /\ res.err.tag # "Panic"
          /\ res.ok => (Len(res.val) = UuidLen /\ res.err = NoError)
          /\ ~res.ok => res.err.tag \in {"InvalidLength", "InvalidFormat"}
    /\ (op = "try_decode" /\ str_len(text) = CompactLen
            /\ Base64Decode(str_as_bytes(text)).ok) =>
          /\ Len(Base64Decode(str_as_bytes(text)).val) = UuidLen
          /\ expect_array(Base64Decode(str_as_bytes(text)).val).ok
          /\ res.ok

C13_Witness ==
    /\ op = "try_decode"
    /\ str_len(text) = CompactLen
    /\ Base64Decode(str_as_bytes(text)).ok
    /\ res.ok
    /\ res.val # id

\* C14: text equality agrees with parsing: an identifier equals a text
\* exactly when try_parse of the text returns an identifier equal to it.
C14_EqAgreesWithParse ==
    op = "eq_str" =>
        (res.eq <=> (try_parse(res.rhs).ok /\ try_parse(res.rhs).val = id))

C14_Witness ==
    /\ op = "eq_str"
    /\ res.eq
    /\ origin = "hyphenated"
    /\ try_parse(text) = Ok(id)
    /\ ~try_decode(text).ok

\* C15: compact decoding is canonical: a 22-character text that try_decode
\* accepts is the encoding of the identifier it returns, and a 22-character
\* text over the alphabet whose last character has non-zero unused low bits
\* is rejected with InvalidFormat.
C15_CanonicalDecoding ==
    (op = "try_decode" /\ Len(text) = CompactLen) =>
        /\ res.ok => encode(res.val) = text
        /\ ((\A i \in 1 .. CompactLen : text[i] \in Base64Chars)
                /\ SymbolValue(text[CompactLen]) % 16 # 0) =>
              (~res.ok /\ res.err.tag = "InvalidFormat"
                       /\ res.err.kind = "InvalidLastSymbol")

C15_Witness ==
    /\ op = "try_decode"
    /\ origin = "edited"
    /\ Len(text) = CompactLen
    /\ res.ok
    /\ encode(res.val) = text
    /\ res.val # id

=============================================================================
